---- MODULE Spec2Model ----
(***************************************************************************)
(* Model of asyncCheckerBlock.Check (checker.go): N member goroutines, one *)
(* coordinator goroutine waiting on the WaitGroup, and the calling         *)
(* goroutine that launches the members and then aggregates over            *)
(* resultsChan / errChan with a select.                                    *)
(***************************************************************************)
EXTENDS Integers, Sequences, FiniteSets, TLC

\* Largest group size explored.
MaxN == 2

----------------------------------------------------------------------------
\* Error values.  Every error is a pair <<kind, origin>> so that values compare.

Nil == <<"nil", 0>>

errNotApplicable == <<"errNotApplicable", 0>>

\* A non-nil, non-sentinel error returned by member m's Check.
Malfunction(m) == <<"malfunction", m>>

\* fmt.Errorf("panic: %v", r) built in member m's deferred function.
PanicErr(m) == <<"panic", m>>

\* The problems a member may return: none, or two distinct problems of its own.
ProbChoices(m) == { <<>>, << <<m, 1>>, <<m, 2>> >> }

\* What a member's Check does: panic, or return (probs, err).
Behaviours(m) ==
    { [panics |-> FALSE, probs |-> p, err |-> e] :
          p \in ProbChoices(m), e \in {Nil, errNotApplicable, Malfunction(m)} }
    \cup { [panics |-> TRUE, probs |-> <<>>, err |-> Nil] }

Groups == UNION { { g \in [1..n -> UNION { Behaviours(m) : m \in 1..n }] :
                      \A m \in 1..n : g[m] \in Behaviours(m) } : n \in 0..MaxN }

VARIABLES
    c,            \* the group: c[m] is the behaviour of member m's Check
    wg,           \* sync.WaitGroup counter
    errChan,      \* buffered channel of errors
    resultsChan,  \* buffered channel of []Problem
    coordPc,      \* coordinator goroutine: "wait", "send", "done"
    mpc,          \* member goroutines' positions
    mainPc,       \* calling goroutine: "launch", "select", "done"
    launched,     \* number of go statements executed by the range loop
    i,            \* loop counter of the aggregation loop
    probs,        \* accumulator
    ret,          \* (probs, err) returned by Check, meaningful when mainPc = "done"
    errLog,       \* every value ever sent on errChan, in order
    resLog,       \* every value ever sent on resultsChan, in order
    run,          \* 1 during the first invocation, 2 during the second
    first,        \* what the first invocation returned
    delivered,    \* delivered[m]: number of sends member m made on each channel
    method,       \* the ValidationMethod looked up in validMethods
    answer        \* result of the lookup: "unasked", "true" or "false"

vars == <<c, wg, errChan, resultsChan, coordPc, mpc, mainPc, launched, i,
          probs, ret, errLog, resLog, run, first, delivered, method, answer>>

N == Len(c)

Members == 1..N

\* Variant: the error channel is made one slot too small.
ErrChanCap_Short == N - 1

\* make(chan error, len(c))
ErrChanCap == N

\* make(chan []Problem, len(c))
ResultsChanCap == N

\* Variant: the sentinel comparison is inverted (== for !=).
IsFailure_Inverted(err) == err # Nil /\ err = errNotApplicable

\* Variant: the sentinel is not exempted (err != nil only).
IsFailure_NoSentinel(err) == err # Nil

\* err != nil && err != errNotApplicable
IsFailure(err) == err # Nil /\ err # errNotApplicable

NoReturn == [probs |-> <<>>, err |-> Nil]

\* State right after wg.Add, the two make(chan) and the coordinator's go statement.
Start(g) ==
    /\ c = g
    /\ wg = Len(g)
    /\ errChan = <<>>
    /\ resultsChan = <<>>
    /\ coordPc = "wait"
    /\ mpc = [m \in 1..Len(g) |-> "idle"]
    /\ mainPc = IF Len(g) = 0 THEN "select" ELSE "launch"
    /\ launched = 0
    /\ i = 0
    /\ probs = <<>>
    /\ ret = NoReturn
    /\ errLog = <<>>
    /\ resLog = <<>>
    /\ delivered = [m \in 1..Len(g) |-> [err |-> 0, res |-> 0]]

Init ==
    /\ \E g \in Groups : Start(g)
    /\ run = 1
    /\ first = NoReturn
    /\ method = <<>>
    /\ answer = "unasked"

----------------------------------------------------------------------------
\* Coordinator goroutine.

\* Variant: the coordinator does not wait for the wait group.
CoordWait_NoWait ==
    /\ coordPc = "wait"
    /\ coordPc' = "send"
    /\ UNCHANGED <<c, wg, errChan, resultsChan, mpc, mainPc, launched, i,
                   probs, ret, errLog, resLog, run, first, delivered, method, answer>>

CoordWait ==
    /\ coordPc = "wait"
    /\ wg = 0
    /\ coordPc' = "send"
    /\ UNCHANGED <<c, wg, errChan, resultsChan, mpc, mainPc, launched, i,
                   probs, ret, errLog, resLog, run, first, delivered, method, answer>>

CoordSend ==
    /\ coordPc = "send"
    /\ Len(errChan) < ErrChanCap
    /\ errChan' = Append(errChan, Nil)
    /\ errLog' = Append(errLog, Nil)
    /\ coordPc' = "done"
    /\ UNCHANGED <<c, wg, resultsChan, mpc, mainPc, launched, i,
                   probs, ret, resLog, run, first, delivered, method, answer>>

----------------------------------------------------------------------------
\* Calling goroutine: the range loop of go statements.

\* Variant: the range loop stops one member early.
Launch_StopsEarly ==
    /\ mainPc = "launch"
    /\ launched < N
    /\ launched' = launched + 1
    /\ mpc' = [mpc EXCEPT ![launched + 1] = "start"]
    /\ mainPc' = IF launched + 1 >= N - 1 THEN "select" ELSE "launch"
    /\ UNCHANGED <<c, wg, errChan, resultsChan, coordPc, i,
                   probs, ret, errLog, resLog, run, first, delivered, method, answer>>

Launch ==
    /\ mainPc = "launch"
    /\ launched < N
    /\ launched' = launched + 1
    /\ mpc' = [mpc EXCEPT ![launched + 1] = "start"]
    /\ mainPc' = IF launched + 1 = N THEN "select" ELSE "launch"
    /\ UNCHANGED <<c, wg, errChan, resultsChan, coordPc, i,
                   probs, ret, errLog, resLog, run, first, delivered, method, answer>>

----------------------------------------------------------------------------
\* Member goroutine m.

\* The goroutine is scheduled and calls chk.Check.
MemberEnter(m) ==
    /\ mpc[m] = "start"
    /\ mpc' = [mpc EXCEPT ![m] = "inCheck"]
    /\ UNCHANGED <<c, wg, errChan, resultsChan, coordPc, mainPc, launched, i,
                   probs, ret, errLog, resLog, run, first, delivered, method, answer>>

\* Variant: the error check is missing and every returned value goes to the
\* results channel.
MemberCheckReturns_NoBranch(m) ==
    /\ mpc[m] = "inCheck"
    /\ mpc' = [mpc EXCEPT ![m] = IF c[m].panics THEN "recovered" ELSE "sendRes"]
    /\ UNCHANGED <<c, wg, errChan, resultsChan, coordPc, mainPc, launched, i,
                   probs, ret, errLog, resLog, run, first, delivered, method, answer>>

\* chk.Check panics or returns; the branch on err picks the channel.
MemberCheckReturns(m) ==
    /\ mpc[m] = "inCheck"
    /\ mpc' = [mpc EXCEPT ![m] =
                  IF c[m].panics THEN "recovered"
                  ELSE IF IsFailure(c[m].err) THEN "sendErr"
                  ELSE "sendRes"]
    /\ UNCHANGED <<c, wg, errChan, resultsChan, coordPc, mainPc, launched, i,
                   probs, ret, errLog, resLog, run, first, delivered, method, answer>>

\* Variant: a member that sent an error ends without calling wg.Done.
MemberSendErr_NoDone(m) ==
    /\ mpc[m] = "sendErr"
    /\ Len(errChan) < ErrChanCap
    /\ errChan' = Append(errChan, c[m].err)
    /\ errLog' = Append(errLog, c[m].err)
    /\ mpc' = [mpc EXCEPT ![m] = "done"]
    /\ delivered' = [delivered EXCEPT ![m].err = @ + 1]
    /\ UNCHANGED <<c, wg, resultsChan, coordPc, mainPc, launched, i,
                   probs, ret, resLog, run, first, method, answer>>

\* Variant: the return after the error send is missing, so the member falls
\* through to the results send.
MemberSendErr_NoReturn(m) ==
    /\ mpc[m] = "sendErr"
    /\ Len(errChan) < ErrChanCap
    /\ errChan' = Append(errChan, c[m].err)
    /\ errLog' = Append(errLog, c[m].err)
    /\ mpc' = [mpc EXCEPT ![m] = "sendRes"]
    /\ delivered' = [delivered EXCEPT ![m].err = @ + 1]
    /\ UNCHANGED <<c, wg, resultsChan, coordPc, mainPc, launched, i,
                   probs, ret, resLog, run, first, method, answer>>

\* errChan <- err; return
MemberSendErr(m) ==
    /\ mpc[m] = "sendErr"
    /\ Len(errChan) < ErrChanCap
    /\ errChan' = Append(errChan, c[m].err)
    /\ errLog' = Append(errLog, c[m].err)
    /\ mpc' = [mpc EXCEPT ![m] = "wgDone"]
    /\ delivered' = [delivered EXCEPT ![m].err = @ + 1]
    /\ UNCHANGED <<c, wg, resultsChan, coordPc, mainPc, launched, i,
                   probs, ret, resLog, run, first, method, answer>>

\* resultsChan <- probs
MemberSendRes(m) ==
    /\ mpc[m] = "sendRes"
    /\ Len(resultsChan) < ResultsChanCap
    /\ resultsChan' = Append(resultsChan, c[m].probs)
    /\ resLog' = Append(resLog, c[m].probs)
    /\ mpc' = [mpc EXCEPT ![m] = "wgDone"]
    /\ delivered' = [delivered EXCEPT ![m].res = @ + 1]
    /\ UNCHANGED <<c, wg, errChan, coordPc, mainPc, launched, i,
                   probs, ret, errLog, run, first, method, answer>>

\* Variant: the deferred function reports completion after a panic as well.
MemberRecover_AlsoDone(m) ==
    /\ mpc[m] = "recovered"
    /\ Len(errChan) < ErrChanCap
    /\ errChan' = Append(errChan, PanicErr(m))
    /\ errLog' = Append(errLog, PanicErr(m))
    /\ wg' = wg - 1
    /\ mpc' = [mpc EXCEPT ![m] = "done"]
    /\ delivered' = [delivered EXCEPT ![m].err = @ + 1]
    /\ UNCHANGED <<c, resultsChan, coordPc, mainPc, launched, i,
                   probs, ret, resLog, run, first, method, answer>>

\* Variant: the deferred function swallows the panic and reports completion.
MemberRecover_Swallows(m) ==
    /\ mpc[m] = "recovered"
    /\ wg' = wg - 1
    /\ mpc' = [mpc EXCEPT ![m] = "done"]
    /\ UNCHANGED <<c, errChan, resultsChan, coordPc, mainPc, launched, i,
                   probs, ret, errLog, resLog, run, first, delivered, method, answer>>

\* deferred function, recover() != nil: errChan <- fmt.Errorf("panic: %v", r)
MemberRecover(m) ==
    /\ mpc[m] = "recovered"
    /\ Len(errChan) < ErrChanCap
    /\ errChan' = Append(errChan, PanicErr(m))
    /\ errLog' = Append(errLog, PanicErr(m))
    /\ mpc' = [mpc EXCEPT ![m] = "done"]
    /\ delivered' = [delivered EXCEPT ![m].err = @ + 1]
    /\ UNCHANGED <<c, wg, resultsChan, coordPc, mainPc, launched, i,
                   probs, ret, resLog, run, first, method, answer>>

\* deferred function, recover() = nil: wg.Done()
MemberWgDone(m) ==
    /\ mpc[m] = "wgDone"
    /\ wg' = wg - 1
    /\ mpc' = [mpc EXCEPT ![m] = "done"]
    /\ UNCHANGED <<c, errChan, resultsChan, coordPc, mainPc, launched, i,
                   probs, ret, errLog, resLog, run, first, delivered, method, answer>>

----------------------------------------------------------------------------
\* Calling goroutine: the aggregation loop.

\* Variant: only the first problem of a member's slice is appended.
AggRecvResults_FirstOnly ==
    /\ mainPc = "select"
    /\ i < N
    /\ resultsChan # <<>>
    /\ probs' = IF Len(Head(resultsChan)) > 0
                THEN Append(probs, Head(Head(resultsChan))) ELSE probs
    /\ resultsChan' = Tail(resultsChan)
    /\ i' = i + 1
    /\ UNCHANGED <<c, wg, errChan, coordPc, mpc, mainPc, launched,
                   ret, errLog, resLog, run, first, delivered, method, answer>>

\* Variant: the loop counter is not advanced on a results event.
AggRecvResults_NoCount ==
    /\ mainPc = "select"
    /\ i < N
    /\ resultsChan # <<>>
    /\ probs' = IF Len(Head(resultsChan)) > 0
                THEN probs \o Head(resultsChan) ELSE probs
    /\ resultsChan' = Tail(resultsChan)
    /\ UNCHANGED <<c, wg, errChan, coordPc, mpc, mainPc, launched, i,
                   ret, errLog, resLog, run, first, delivered, method, answer>>

\* case checkerProbs := <-resultsChan
AggRecvResults ==
    /\ mainPc = "select"
    /\ i < N
    /\ resultsChan # <<>>
    /\ probs' = IF Len(Head(resultsChan)) > 0
                THEN probs \o Head(resultsChan) ELSE probs
    /\ resultsChan' = Tail(resultsChan)
    /\ i' = i + 1
    /\ UNCHANGED <<c, wg, errChan, coordPc, mpc, mainPc, launched,
                   ret, errLog, resLog, run, first, delivered, method, answer>>

\* Variant: the short-circuit exit drops the problems accumulated so far.
AggRecvErr_DropsPartial ==
    /\ mainPc = "select"
    /\ i < N
    /\ errChan # <<>>
    /\ ret' = [probs |-> <<>>, err |-> Head(errChan)]
    /\ errChan' = Tail(errChan)
    /\ mainPc' = "done"
    /\ UNCHANGED <<c, wg, resultsChan, coordPc, mpc, launched, i,
                   probs, errLog, resLog, run, first, delivered, method, answer>>

\* case err := <-errChan: return probs, err
AggRecvErr ==
    /\ mainPc = "select"
    /\ i < N
    /\ errChan # <<>>
    /\ ret' = [probs |-> probs, err |-> Head(errChan)]
    /\ errChan' = Tail(errChan)
    /\ mainPc' = "done"
    /\ UNCHANGED <<c, wg, resultsChan, coordPc, mpc, launched, i,
                   probs, errLog, resLog, run, first, delivered, method, answer>>

\* Variant: the aggregation loop runs one iteration short.
AggReturnNil_OneShort ==
    /\ mainPc = "select"
    /\ i >= N - 1
    /\ ret' = [probs |-> probs, err |-> Nil]
    /\ mainPc' = "done"
    /\ UNCHANGED <<c, wg, errChan, resultsChan, coordPc, mpc, launched, i,
                   probs, errLog, resLog, run, first, delivered, method, answer>>

\* loop condition false: return probs, nil
AggReturnNil ==
    /\ mainPc = "select"
    /\ i = N
    /\ ret' = [probs |-> probs, err |-> Nil]
    /\ mainPc' = "done"
    /\ UNCHANGED <<c, wg, errChan, resultsChan, coordPc, mpc, launched, i,
                   probs, errLog, resLog, run, first, delivered, method, answer>>

----------------------------------------------------------------------------
\* The caller invokes Check on the same group a second time.  Channels, wait
\* group and goroutines are per invocation, so the second call starts afresh.
Rerun ==
    /\ mainPc = "done"
    /\ run = 1
    /\ run' = 2
    /\ first' = ret
    /\ wg' = N
    /\ errChan' = <<>>
    /\ resultsChan' = <<>>
    /\ coordPc' = "wait"
    /\ mpc' = [m \in Members |-> "idle"]
    /\ mainPc' = IF N = 0 THEN "select" ELSE "launch"
    /\ launched' = 0
    /\ i' = 0
    /\ probs' = <<>>
    /\ ret' = NoReturn
    /\ errLog' = <<>>
    /\ resLog' = <<>>
    /\ delivered' = [m \in Members |-> [err |-> 0, res |-> 0]]
    /\ UNCHANGED <<c, method, answer>>

----------------------------------------------------------------------------
\* ValidationMethod strings and the validMethods table.  A string is the
\* sequence of its tokens; two strings are equal iff their sequences are.

\* Longest method string looked up, in tokens.
MaxTokens == 3

Tokens == {"http", "dns", "tls-sni", "-", "01", "02"}

MethodStrings == UNION { [1..n -> Tokens] : n \in 0..MaxTokens }

HTTP01 == <<"http", "-", "01">>

DNS01 == <<"dns", "-", "01">>

TLSSNI01 == <<"tls-sni", "-", "01">>

TLSSNI02 == <<"tls-sni", "-", "02">>

\* Variant: one method is left out of the table.
validMethods_Short ==
    [k \in {HTTP01, DNS01, TLSSNI01} |-> TRUE]

\* map[ValidationMethod]bool{HTTP01: true, DNS01: true, TLSSNI01: true, TLSSNI02: true}
validMethods ==
    [k \in {HTTP01, DNS01, TLSSNI01, TLSSNI02} |-> TRUE]

\* validMethods[k]: a missing key yields the zero value false.
MapLookup(k) == IF k \in DOMAIN validMethods THEN validMethods[k] ELSE FALSE

\* A caller holds some method string and has not consulted the table yet.
MethodInit ==
    /\ Start(<<>>)
    /\ run = 1
    /\ first = NoReturn
    /\ method \in MethodStrings
    /\ answer = "unasked"

\* The caller reads validMethods[method].
IsValidCall ==
    /\ answer = "unasked"
    /\ answer' = IF MapLookup(method) THEN "true" ELSE "false"
    /\ UNCHANGED <<c, wg, errChan, resultsChan, coordPc, mpc, mainPc, launched,
                   i, probs, ret, errLog, resLog, run, first, delivered, method>>

MethodSpec == MethodInit /\ [][IsValidCall]_vars

MemberStep(m) ==
    \/ MemberEnter(m)
    \/ MemberCheckReturns(m)
    \/ MemberSendErr(m)
    \/ MemberSendRes(m)
    \/ MemberRecover(m)
    \/ MemberWgDone(m)

MainStep ==
    \/ Launch
    \/ AggRecvResults
    \/ AggRecvErr
    \/ AggReturnNil

\* One step of one invocation of Check.
Invocation ==
    \/ CoordWait
    \/ CoordSend
    \/ MainStep
    \/ \E m \in Members : MemberStep(m)

Next ==
    \/ Invocation
    \/ Rerun

Spec == Init /\ [][Next]_vars

\* A single invocation under fairness of the member goroutines and the calling
\* goroutine only; the coordinator goroutine is given none.
FairSpec ==
    /\ Init
    /\ [][Invocation]_vars
    /\ WF_vars(MainStep)
    /\ \A m \in 1..MaxN : WF_vars(m \in Members /\ MemberStep(m))

----------------------------------------------------------------------------
TypeOK ==
    /\ c \in Groups
    /\ wg \in 0..N
    /\ Len(errChan) <= ErrChanCap
    /\ Len(resultsChan) <= ResultsChanCap
    /\ coordPc \in {"wait", "send", "done"}
    /\ mainPc \in {"launch", "select", "done"}
    /\ launched \in 0..N
    /\ i \in 0..N
    /\ run \in {1, 2}

----------------------------------------------------------------------------
\* Vocabulary of the properties.

Range(s) == { s[j] : j \in DOMAIN s }

Count(s, x) == Cardinality({ j \in DOMAIN s : s[j] = x })

AllProblems == UNION { Range(p) : p \in UNION { ProbChoices(m) : m \in 1..MaxN } }

RECURSIVE Produced(_, _)
\* Number of copies of problem x returned by the Checks of the members in S.
Produced(S, x) ==
    IF S = {} THEN 0
    ELSE LET m == CHOOSE k \in S : TRUE
         IN  Count(c[m].probs, x) + Produced(S \ {m}, x)

\* Member m's Check returns with a nil or not-applicable error.
Clean(m) == ~c[m].panics /\ c[m].err \in {Nil, errNotApplicable}

\* Member m's Check returns a malfunction error.
Malfunctions(m) == ~c[m].panics /\ c[m].err = Malfunction(m)

AllClean == \A m \in Members : Clean(m)

Returned == mainPc = "done"

----------------------------------------------------------------------------
\* C1: when every member returns a nil or not-applicable error, Check returns
\* a nil error and, as a multiset, exactly the problems of all members.
C1_NoLossNoDup ==
    (Returned /\ AllClean) =>
        /\ ret.err = Nil
        /\ \A x \in AllProblems : Count(ret.probs, x) = Produced(Members, x)

\* C2: when some member returns a malfunction error or panics, the error
\* returned by Check is never nil.
C2_FailureNeverNil ==
    (Returned /\ \E m \in Members : ~Clean(m)) => ret.err # Nil

\* A failing group returned its error although the nil marker was also sent.
C2_Witness ==
    /\ Returned
    /\ \E m \in Members : ~Clean(m)
    /\ ret.err # Nil
    /\ Nil \in Range(errLog)

\* C3: with exactly one malfunctioning member and all others clean, Check
\* returns that member's error, and the returned problems are a sub-multiset
\* of what the other members returned.
C3_OneMalfunction ==
    \A k \in Members :
        (Returned /\ Malfunctions(k) /\ \A m \in Members \ {k} : Clean(m)) =>
            /\ ret.err = c[k].err
            /\ \A x \in AllProblems :
                   Count(ret.probs, x) <= Produced(Members \ {k}, x)

\* The failing member returned problems with its error, and Check returned the
\* error together with problems of another member.
C3_Witness ==
    \E k \in Members :
        /\ Returned
        /\ Malfunctions(k)
        /\ c[k].probs # <<>>
        /\ \A m \in Members \ {k} : Clean(m)
        /\ ret.err = c[k].err
        /\ ret.probs # <<>>

\* C4: the not-applicable sentinel is not a failure: an all-clean group returns
\* a nil error, a member that returned the sentinel never sends on errChan,
\* and the sentinel never travels on errChan.
C4_SentinelNotFailure ==
    /\ (Returned /\ AllClean) => ret.err = Nil
    /\ \A m \in Members :
           (~c[m].panics /\ c[m].err = errNotApplicable) =>
               /\ mpc[m] \notin {"sendErr", "recovered"}
               /\ Malfunction(m) \notin Range(errLog)
               /\ PanicErr(m) \notin Range(errLog)
    /\ errNotApplicable \notin Range(errLog)

\* A member returned problems with the sentinel, and Check returned them with
\* a nil error.
C4_Witness ==
    /\ Returned
    /\ AllClean
    /\ ret.err = Nil
    /\ \E m \in Members :
           /\ c[m].err = errNotApplicable
           /\ c[m].probs # <<>>
           /\ mpc[m] = "done"
           /\ \A x \in Range(c[m].probs) : Count(ret.probs, x) = 1

\* C5: a panic in a member's Check is recovered in that member's goroutine and
\* delivered as an error on errChan; the member and its siblings run to the
\* end of their goroutines, and Check returns with a non-nil error.
C5_PanicContained ==
    /\ [](\A m \in Members :
              c[m].panics =>
                  /\ mpc[m] \in {"idle", "start", "inCheck", "recovered", "done"}
                  /\ mpc[m] = "done" => PanicErr(m) \in Range(errLog))
    /\ ((\E m \in Members : c[m].panics) /\ ~Returned)
           ~> (Returned /\ ret.err # Nil)
    /\ (\E m \in Members : c[m].panics)
           ~> (\A m \in Members : mpc[m] = "done")

\* Check returned the error derived from a member's panic while a clean
\* sibling completed its goroutine.
C5_Witness ==
    /\ Returned
    /\ \E m \in Members :
           /\ c[m].panics
           /\ ret.err = PanicErr(m)
           /\ \E s \in Members \ {m} : Clean(s) /\ mpc[s] = "done"

\* C6: a nil error is returned only after exactly N results events were
\* consumed; the nil marker never makes the aggregator return.
C6_NilMeansAllCounted ==
    (Returned /\ ret.err = Nil) => i = N

\* C7: Check returns for every group size when the members and the calling
\* goroutine are scheduled fairly, whatever the coordinator does.
C7_Terminates ==
    (~Returned) ~> Returned

\* Check returned for a full-size clean group although the coordinator has
\* not sent its marker.
C7_Witness ==
    /\ Returned
    /\ N = MaxN
    /\ AllClean
    /\ coordPc = "wait"
    /\ Nil \notin Range(errLog)

\* C8: a member that is about to send on errChan or resultsChan always finds
\* room in the buffer, also after Check has returned.
C8_SendNeverBlocks ==
    \A m \in Members :
        /\ mpc[m] \in {"sendErr", "recovered"} => Len(errChan) < ErrChanCap
        /\ mpc[m] = "sendRes" => Len(resultsChan) < ResultsChanCap

\* Check has returned early on a failure while another member is still about
\* to deliver.
C8_Witness ==
    /\ Returned
    /\ ret.err # Nil
    /\ \E m \in Members : mpc[m] \in {"sendErr", "recovered", "sendRes"}
    /\ \E m \in Members : mpc[m] = "done"

\* C9: two invocations of the same group with deterministic, non-failing
\* members return the same multiset of problems and the same nil/non-nil
\* error outcome.
C9_SameTwice ==
    (run = 2 /\ Returned /\ AllClean) =>
        /\ \A x \in AllProblems : Count(ret.probs, x) = Count(first.probs, x)
        /\ (ret.err = Nil) <=> (first.err = Nil)

\* C10: every member has been launched when the aggregator starts to wait,
\* and a group whose members all return (empty, nil) returns (empty, nil).
C10_AllLaunchedFirst ==
    /\ mainPc \in {"select", "done"} => \A m \in Members : mpc[m] # "idle"
    /\ (Returned /\ \A m \in Members :
                        ~c[m].panics /\ c[m].err = Nil /\ c[m].probs = <<>>)
           => ret = [probs |-> <<>>, err |-> Nil]

\* All members of a full-size group are inside their Check call at once while
\* the aggregator waits.
C10_Witness ==
    /\ N = MaxN
    /\ mainPc = "select"
    /\ \A m \in Members : mpc[m] = "inCheck"
    /\ \A m \in Members : ~c[m].panics /\ c[m].err = Nil /\ c[m].probs = <<>>

\* C11: the validity table answers true exactly for http-01, dns-01,
\* tls-sni-01 and tls-sni-02, and false for every other string, among them
\* "http-02" and the empty string.
C11_ExactlyFourMethods ==
    answer # "unasked" =>
        /\ answer = "true" <=>
               \/ method = <<"http", "-", "01">>
               \/ method = <<"dns", "-", "01">>
               \/ method = <<"tls-sni", "-", "01">>
               \/ method = <<"tls-sni", "-", "02">>
        /\ method \in { <<>>, <<"http", "-", "02">> } => answer = "false"

\* The table was asked about "http-02" and answered false.
C11_Witness ==
    /\ method = <<"http", "-", "02">>
    /\ answer = "false"

\* C12 (as stated): a member that returned a malfunction error delivers it on
\* errChan, and only members that delivered on resultsChan decrement the wait
\* group.
C12_FailingNeverReports ==
    /\ \A m \in Members :
           (Malfunctions(m) /\ mpc[m] = "done") => c[m].err \in Range(errLog)
    /\ N - wg <= Cardinality({ m \in Members : delivered[m].res > 0 })

\* C12 (amended): a member that returned a malfunction error delivers it on
\* errChan, nothing on resultsChan, and then calls wg.Done; every member that
\* returned has called wg.Done when it ends, and a panicking member never does.
C12_FailingReportsAfterSend ==
    /\ \A m \in Members :
           (Malfunctions(m) /\ mpc[m] \in {"wgDone", "done"}) =>
               /\ delivered[m] = [err |-> 1, res |-> 0]
               /\ c[m].err \in Range(errLog)
    /\ N - wg = Cardinality({ m \in Members : ~c[m].panics /\ mpc[m] = "done" })
    /\ \A m \in Members : c[m].panics => mpc[m] # "wgDone"

\* A malfunctioning member of a full-size group has ended and the wait group
\* has reached zero.
C12_Witness ==
    /\ N = MaxN
    /\ wg = 0
    /\ \E m \in Members : Malfunctions(m) /\ mpc[m] = "done"

\* C13: at most N values are ever sent on resultsChan and at most N+1 on
\* errChan; the coordinator sends nil at most once, and only after the wait
\* group has reached zero.
C13_ChannelTotals ==
    /\ Len(resLog) <= N
    /\ Len(errLog) <= N + 1
    /\ Count(errLog, Nil) <= 1
    /\ (coordPc \in {"send", "done"} \/ Nil \in Range(errLog)) => wg = 0

\* A full-size group put N errors and the nil marker on errChan.
C13_Witness ==
    /\ N = MaxN
    /\ Len(errLog) = N + 1
    /\ Count(errLog, Nil) = 1

RECURSIVE Flatten(_)
\* Concatenation of a sequence of problem sequences.
Flatten(ss) == IF ss = <<>> THEN <<>> ELSE Head(ss) \o Flatten(Tail(ss))

\* C14: when members fail, Check returns the error that was enqueued first on
\* errChan, which is an error of some failing member, together with exactly
\* the concatenation of the results events consumed before it.
C14_FirstErrorWins ==
    (Returned /\ \E m \in Members : ~Clean(m)) =>
        /\ Len(errLog) >= 1
        /\ ret.err = errLog[1]
        /\ ret.err \in { c[m].err : m \in { k \in Members : Malfunctions(k) } }
                       \cup { PanicErr(m) : m \in { k \in Members : c[k].panics } }
        /\ ret.probs = Flatten(SubSeq(resLog, 1, i))

\* Two members failed; Check returned the error enqueued first while the
\* second member's error was enqueued behind it.
C14_Witness ==
    /\ Returned
    /\ Cardinality({ m \in Members : ~Clean(m) }) >= 2
    /\ Len(errLog) >= 2
    /\ errLog[2] # Nil
    /\ ret.err = errLog[1]
    /\ ret.err # errLog[2]

\* C15: in the returned sequence the problems of one member are either absent
\* or present exactly once as one contiguous block in the member's own order.
C15_Undivided ==
    Returned =>
        \A m \in Members :
            LET blk == c[m].probs
            IN  \/ \A x \in Range(blk) : Count(ret.probs, x) = 0
                \/ /\ \A x \in Range(blk) : Count(ret.probs, x) = 1
                   /\ \E k \in 0..(Len(ret.probs) - Len(blk)) :
                          SubSeq(ret.probs, k + 1, k + Len(blk)) = blk

\* Check returned the non-empty blocks of two different members.
C15_Witness ==
    /\ Returned
    /\ \E m1, m2 \in Members :
           /\ m1 # m2
           /\ c[m1].probs # <<>>
           /\ c[m2].probs # <<>>
           /\ ret.probs \in { c[m1].probs \o c[m2].probs, c[m2].probs \o c[m1].probs }

\* Member m's call of chk.Check has not returned (or panicked) yet.  Nothing
\* forces it to: a run in which m stays here for ever is a run in which its
\* Check never returns.
StillInCheck(m) == mpc[m] \in {"start", "inCheck"}

\* C16 (as stated): Check never returns while some member's Check has not
\* returned, so a member that never returns keeps Check from returning.
C16_HungMemberHangsGroup ==
    Returned => \A m \in Members : ~StillInCheck(m)

\* C16 (amended): while some member's Check has not returned, Check returns
\* only with the error of another member that malfunctioned or panicked, never
\* with a nil error.
C16_HungMemberBlocksCleanReturn ==
    (Returned /\ \E m \in Members : StillInCheck(m)) =>
        \E k \in Members :
            /\ ~StillInCheck(k)
            /\ \/ Malfunctions(k) /\ ret.err = c[k].err
               \/ c[k].panics /\ ret.err = PanicErr(k)

\* Check returned a sibling's error while a member was still inside its Check.
C16_Witness ==
    /\ Returned
    /\ ret.err # Nil
    /\ \E m \in Members : mpc[m] = "inCheck"

\* C17: once Check has returned and every member goroutine has ended, the
\* coordinator goroutine has ended too or can still take its next step.  In
\* such a state nothing changes wg or errChan any more, so a coordinator that
\* cannot step is blocked for ever.
C17_NoUnitBlockedForever ==
    (Returned /\ \A m \in Members : mpc[m] = "done") =>
        \/ coordPc = "done"
        \/ coordPc = "wait" /\ wg = 0
        \/ coordPc = "send" /\ Len(errChan) < ErrChanCap

\* C18: a member makes at most one send in total, and once its Check has
\* returned or panicked and the send is made it is exactly one: on resultsChan
\* for a nil or not-applicable error, on errChan for a malfunction or a panic.
C18_OneEventOneChannel ==
    \A m \in Members :
        /\ delivered[m].err + delivered[m].res <= 1
        /\ mpc[m] \in {"wgDone", "done"} =>
               delivered[m] = IF Clean(m) THEN [err |-> 0, res |-> 1]
                              ELSE [err |-> 1, res |-> 0]

\* All members of a full-size group have ended, one after a results send and
\* one after an error send.
C18_Witness ==
    /\ N = MaxN
    /\ \A m \in Members : mpc[m] = "done"
    /\ \E m \in Members : delivered[m] = [err |-> 0, res |-> 1]
    /\ \E m \in Members : delivered[m] = [err |-> 1, res |-> 0]

\* C19: the nil marker, when sent, is the last value ever put on errChan and
\* every malfunctioning member's error is ahead of it; when a member panics
\* the coordinator never gets past wg.Wait and the marker is never sent.
C19_NilAfterErrors ==
    /\ Nil \in Range(errLog) =>
           /\ errLog[Len(errLog)] = Nil
           /\ Count(errLog, Nil) = 1
           /\ \A m \in Members : Malfunctions(m) => c[m].err \in Range(errLog)
    /\ (\E m \in Members : c[m].panics) =>
           /\ Nil \notin Range(errLog)
           /\ coordPc = "wait"

\* A member's error and then the nil marker were put on errChan.
C19_Witness ==
    /\ Len(errLog) >= 2
    /\ errLog[1] # Nil
    /\ errLog[Len(errLog)] = Nil
====
